---- MODULE Spec2Model ----
(***************************************************************************)
(* Replay memories of tmrl/custom/custom_memories.py (MemoryTMNFLidar,     *)
(* TrajMemoryTMNFLidar, MemoryTM2020, MemoryCognifly) and the training     *)
(* loop of tmrl/training_offline.py (TrainingOffline).                     *)
(*                                                                         *)
(* Python lists are sequences; the Python position p of a list is the      *)
(* position p + 1 of the sequence.  The sample that is the k-th one ever   *)
(* handed to append_buffer (k counted from 0) carries the value            *)
(* <<f, k, r>> in its field f, r being the representation of the value     *)
(* ("raw", "f32", "img", "chw"), so that the origin of every stored or     *)
(* extracted value can be read off the value.                              *)
(***************************************************************************)
EXTENDS Integers, Sequences, FiniteSets, TLC

VARIABLES
    cfg,            \* constructor arguments of the memory (fixed)
    data,           \* self.data: the list of field lists
    files,          \* image files on disk (MemoryTM2020): file name -> content
    appended,       \* number of samples ever handed to append_buffer
    nb_appends,     \* number of append_buffer calls so far
    peak,           \* len(self.data[0]) in the last append_buffer call, before the trim
    trimmed,        \* to_trim of the last append_buffer call (0: no trim)
    item,           \* argument of the last extraction call, NoCall if none
    out,            \* outcome of the last extraction call
    tcfg,           \* fields of the TrainingOffline dataclass (fixed)
    pc,             \* position of the training loop
    ret,            \* where the running check_ratio call returns to
    rnd,            \* rnd of run_epoch
    step,           \* batches drawn so far by the iteration over the memory
    epoch,          \* self.epoch
    total_updates,  \* self.total_updates
    total_samples,  \* self.total_samples
    broadcasts,     \* number of interface.broadcast_model calls so far
    last_buffer,    \* len(buffer) of the last update_buffer call, -1 if none
    checkpoint_path,\* checkpoint_path of iterate_epochs_tm
    disk,           \* the file system: path -> content of the file, Absent if none
    gpc,            \* position of the generator iterate_epochs_tm
    existed,        \* what exists(checkpoint_path) returned at line 66
    run_instance,   \* the local run_instance of iterate_epochs_tm
    exc             \* the exception iterate_epochs_tm is raising, "none" if none

mvars == <<cfg, data, files, appended, nb_appends, peak, trimmed, item, out>>
lvars == <<tcfg, pc, ret, rnd, step, epoch, total_updates, total_samples,
           broadcasts, last_buffer>>
rvars == <<checkpoint_path, disk, gpc, existed, run_instance, exc>>
vars == <<cfg, data, files, appended, nb_appends, peak, trimmed, item, out,
          tcfg, pc, ret, rnd, step, epoch, total_updates, total_samples,
          broadcasts, last_buffer,
          checkpoint_path, disk, gpc, existed, run_instance, exc>>

---------------------------------------------------------------------------
(* Bounds of the model *)

MaxTotal == 10        \* samples handed to append_buffer in one behaviour
MaxAppends == 2       \* append_buffer calls in one behaviour
MaxActBufLen == 2     \* act_buf_len ranges over 1..MaxActBufLen
MaxTrajLen == 3       \* traj_len ranges over 1..MaxTrajLen
MaxItemOver == 1      \* items tried beyond either end of [0, len(memory))

ImgsObsValues == {1, 4, 8}
MemorySizes == {2, 100}
Variants == {"Lidar", "Traj", "TM2020", "Cognifly"}

NoCall == -1000

---------------------------------------------------------------------------
(* Python list primitives *)

Max(a, b) == IF a >= b THEN a ELSE b
Min(a, b) == IF a <= b THEN a ELSE b

\* l[i] raises IndexError unless -len(l) <= i < len(l)
ValidIdx(l, i) == -Len(l) <= i /\ i < Len(l)

\* l[i], a negative i counting from the end
PyAt(l, i) == IF i >= 0 THEN l[i + 1] ELSE l[Len(l) + i + 1]

\* a slice bound as Python normalises it
PyBound(n, i) == IF i < 0 THEN Max(n + i, 0) ELSE Min(i, n)

\* l[a:b]
PySlice(l, a, b) ==
    LET lo == PyBound(Len(l), a)
        hi == PyBound(Len(l), b)
    IN  IF lo < hi THEN SubSeq(l, lo + 1, hi) ELSE <<>>

\* l[a:]
PyFrom(l, a) == PySlice(l, a, Len(l))

\* l[:-1]
PyInit(l) == PySlice(l, 0, -1)

\* l[1:]
PyTail(l) == PyFrom(l, 1)

\* np.float32(x): the value x in single precision
Float32(x) == <<x[1], x[2], "f32">>

---------------------------------------------------------------------------
(* Samples and buffers *)

\* the sample (prev_act, obs, rew, done, info) that is the k-th ever appended,
\* as the compressor of the variant leaves it
Sample(v, k) ==
    [act  |-> <<"act", k, "raw">>,
     obs  |-> [j \in 0..5 |-> <<"obs" \o ToString(j), k, "raw">>],
     rew  |-> IF v = "Cognifly" THEN <<"rew", k, "raw">> ELSE <<"rew", k, "f32">>,
     done |-> <<"done", k, "raw">>,
     info |-> <<"info", k, "raw">>]

\* buffer.memory: n samples, the first one being the first-th ever appended
BufferMemory(v, first, n) == [i \in 1..n |-> Sample(v, first + i - 1)]

---------------------------------------------------------------------------
(* Constructors *)

NbFields(v) == CASE v = "Lidar" -> 7
                 [] v = "Traj" -> 7
                 [] v = "TM2020" -> 8
                 [] v = "Cognifly" -> 11

min_samples(c) ==
    IF c.variant = "Traj"
    THEN Max(c.imgs_obs, c.act_buf_len) + (c.traj_len - 1)
    ELSE Max(c.imgs_obs, c.act_buf_len)

start_imgs_offset(c) == Max(0, min_samples(c) - c.imgs_obs)

\* an action window that starts at the item, whatever the image history
start_acts_offset_zero(c) == 0

start_acts_offset(c) == Max(0, min_samples(c) - c.act_buf_len)

---------------------------------------------------------------------------
(* __len__ *)

\* a length that counts every row from min_samples on
len_TMNF_long(c, d) ==
    IF Len(d) = 0 THEN 0
    ELSE LET res == Len(d[1]) - min_samples(c)
         IN  IF res < 0 THEN 0 ELSE res

\* MemoryTMNF.__len__
len_TMNF(c, d) ==
    IF Len(d) = 0 THEN 0
    ELSE LET res == Len(d[1]) - min_samples(c) - 1
         IN  IF res < 0 THEN 0 ELSE res

\* a length that counts two rows more than can be the new observation
len_TM2020_long(c, d) ==
    IF Len(d) < min_samples(c) + 1 THEN 0
    ELSE LET res == Len(d[1]) - min_samples(c) + 1
         IN  IF res < 0 THEN 0 ELSE res

\* MemoryTM2020.__len__, MemoryCognifly.__len__
len_TM2020(c, d) ==
    IF Len(d) < min_samples(c) + 1 THEN 0
    ELSE LET res == Len(d[1]) - min_samples(c) - 1
         IN  IF res < 0 THEN 0 ELSE res

__len__(c, d) ==
    IF c.variant \in {"Lidar", "Traj"} THEN len_TMNF(c, d) ELSE len_TM2020(c, d)

\* len(self.data[0]), 0 while self.data is empty
row_count(d) == IF Len(d) = 0 THEN 0 ELSE Len(d[1])

---------------------------------------------------------------------------
(* append_buffer *)

Range(s) == {s[i] : i \in 1..Len(s)}

\* cv2.imdecode of the PNG blob of a sample
ImDecode(x) == <<x[1], x[2], "img">>

\* d0 .. d6 of MemoryTMNFLidar.append_buffer and TrajMemoryTMNFLidar.append_buffer
Columns_Lidar(c, first_data_idx, buf) ==
    << [i \in 1..Len(buf) |-> first_data_idx + (i - 1)],
       [i \in 1..Len(buf) |-> buf[i].act],
       [i \in 1..Len(buf) |-> buf[i].obs[0]],
       [i \in 1..Len(buf) |-> buf[i].obs[1]],
       [i \in 1..Len(buf) |-> buf[i].done],
       [i \in 1..Len(buf) |-> buf[i].rew],
       [i \in 1..Len(buf) |-> buf[i].info] >>

\* d0 .. d7 of MemoryTM2020.append_buffer
Columns_TM2020(c, first_data_idx, buf) ==
    << [i \in 1..Len(buf) |-> (first_data_idx + (i - 1)) % c.memory_size],
       [i \in 1..Len(buf) |-> buf[i].act],
       [i \in 1..Len(buf) |-> buf[i].obs[0]],
       [i \in 1..Len(buf) |-> buf[i].obs[1]],
       [i \in 1..Len(buf) |-> buf[i].obs[2]],
       [i \in 1..Len(buf) |-> buf[i].done],
       [i \in 1..Len(buf) |-> buf[i].rew],
       [i \in 1..Len(buf) |-> buf[i].info] >>

\* d0 .. d10 of MemoryCognifly.append_buffer
Columns_Cognifly(c, first_data_idx, buf) ==
    << [i \in 1..Len(buf) |-> (first_data_idx + (i - 1)) % c.memory_size],
       [i \in 1..Len(buf) |-> buf[i].act],
       [i \in 1..Len(buf) |-> buf[i].obs[0]],
       [i \in 1..Len(buf) |-> buf[i].obs[1]],
       [i \in 1..Len(buf) |-> buf[i].obs[2]],
       [i \in 1..Len(buf) |-> buf[i].obs[3]],
       [i \in 1..Len(buf) |-> buf[i].obs[4]],
       [i \in 1..Len(buf) |-> buf[i].obs[5]],
       [i \in 1..Len(buf) |-> buf[i].done],
       [i \in 1..Len(buf) |-> buf[i].rew],
       [i \in 1..Len(buf) |-> buf[i].info] >>

Columns(c, first_data_idx, buf) ==
    CASE c.variant \in {"Lidar", "Traj"} -> Columns_Lidar(c, first_data_idx, buf)
      [] c.variant = "TM2020" -> Columns_TM2020(c, first_data_idx, buf)
      [] c.variant = "Cognifly" -> Columns_Cognifly(c, first_data_idx, buf)

\* the cv2.imwrite loop of MemoryTM2020.append_buffer: one file per sample,
\* named after its index, a later sample overwriting an earlier one
WriteImages(c, fl, d0, buf) ==
    IF c.variant # "TM2020" THEN fl
    ELSE [name \in (DOMAIN fl) \cup Range(d0) |->
            IF name \in Range(d0)
            THEN LET i == CHOOSE i \in 1..Len(d0) :
                             /\ d0[i] = name
                             /\ \A j \in (i + 1)..Len(d0) : d0[j] # name
                 IN  ImDecode(buf[i].obs[3])
            ELSE fl[name]]

\* first_data_idx
FirstDataIdx(c, d) == IF __len__(c, d) > 0 THEN PyAt(d[1], -1) + 1 ELSE 0

\* self.data[j] += dj for the fields of the variant, or self.data.append(dj)
Extend(c, d, cols) ==
    IF __len__(c, d) > 0
    THEN [j \in 1..Len(d) |-> IF j <= NbFields(c.variant) THEN d[j] \o cols[j] ELSE d[j]]
    ELSE d \o cols

\* to_trim that leaves one row too many
ToTrim_short(c, d) == __len__(c, d) - c.memory_size - 1

\* to_trim, computed on the extended lists
ToTrim(c, d) == __len__(c, d) - c.memory_size

\* a trim that drops the newest rows instead of the oldest
Trim_newest(c, d) ==
    IF ToTrim_short(c, d) + 1 > 0
    THEN [j \in 1..Len(d) |->
            IF j <= NbFields(c.variant)
            THEN PySlice(d[j], 0, Len(d[j]) - (ToTrim_short(c, d) + 1)) ELSE d[j]]
    ELSE d

\* self.data[j] = self.data[j][to_trim:] for the fields of the variant
Trim(c, d) ==
    IF ToTrim(c, d) > 0
    THEN [j \in 1..Len(d) |->
            IF j <= NbFields(c.variant) THEN PyFrom(d[j], ToTrim(c, d)) ELSE d[j]]
    ELSE d

\* an append_buffer that never trims
append_buffer_untrimmed(c, d, buf) ==
    Extend(c, d, Columns(c, FirstDataIdx(c, d), buf))

\* self.data after append_buffer(buffer)
append_buffer(c, d, buf) == Trim(c, Extend(c, d, Columns(c, FirstDataIdx(c, d), buf)))

---------------------------------------------------------------------------
(* get_transition and get_trajectory *)

\* self.data[j], j as in the source
D(d, j) == d[j + 1]

\* the outcome of a call that raised
Raised == [status |-> "error"]

\* np.array(x, dtype=np.float32)
Float32Array(x) == <<x[1], x[2], "f32">>

\* np.moveaxis(cv2.imread(file), -1, 0) of an existing file
MoveAxis(x) == <<x[1], x[2], "chw">>

\* an image window of imgs_obs rows only
load_imgs_Lidar_short(c, d, it) ==
    PySlice(D(d, 3), it + start_imgs_offset(c), it + start_imgs_offset(c) + c.imgs_obs)

\* MemoryTMNFLidar.load_imgs, before np.stack
load_imgs_Lidar(c, d, it) ==
    PySlice(D(d, 3), it + start_imgs_offset(c), it + start_imgs_offset(c) + c.imgs_obs + 1)

\* MemoryTMNFLidar.load_acts, MemoryTM2020.load_acts, MemoryCognifly.load_acts
load_acts(c, d, it) ==
    PySlice(D(d, 1), it + start_acts_offset(c), it + start_acts_offset(c) + c.act_buf_len + 1)

get_transition_Lidar(c, d, it) ==
    LET idx_last == it + min_samples(c) - 1
        idx_now == it + min_samples(c)
    IN  IF \/ Len(d) < 7
           \/ load_imgs_Lidar(c, d, it) = <<>>      \* np.stack of an empty list
           \/ ~ValidIdx(D(d, 2), idx_last)
           \/ ~ValidIdx(D(d, 5), idx_now)
           \/ ~ValidIdx(D(d, 1), idx_now)
           \/ ~ValidIdx(D(d, 2), idx_now)
           \/ ~ValidIdx(D(d, 4), idx_now)
           \/ ~ValidIdx(D(d, 6), idx_now)
        THEN Raised
        ELSE LET acts == load_acts(c, d, it)
                 imgs == load_imgs_Lidar(c, d, it)
             IN  [status   |-> "ok",
                  last_obs |-> [scalars |-> <<PyAt(D(d, 2), idx_last)>>,
                                imgs    |-> PyInit(imgs),
                                acts    |-> PyInit(acts)],
                  new_act  |-> PyAt(D(d, 1), idx_now),
                  rew      |-> Float32(PyAt(D(d, 5), idx_now)),
                  new_obs  |-> [scalars |-> <<PyAt(D(d, 2), idx_now)>>,
                                imgs    |-> PyTail(imgs),
                                acts    |-> PyTail(acts)],
                  done     |-> PyAt(D(d, 4), idx_now),
                  info     |-> PyAt(D(d, 6), idx_now)]

\* the positions of self.data[0] that MemoryTM2020.load_imgs visits
ImgRange_TM2020(c, it) ==
    [k \in 1..(c.imgs_obs + 1) |-> it + start_imgs_offset(c) + (k - 1)]

\* MemoryTM2020.load_imgs; defined when no read raises
load_imgs_TM2020(c, d, fl, it) ==
    [k \in 1..(c.imgs_obs + 1) |-> MoveAxis(fl[PyAt(D(d, 0), ImgRange_TM2020(c, it)[k])])]

get_transition_TM2020(c, d, fl, it) ==
    LET idx_last == it + min_samples(c) - 1
        idx_now == it + min_samples(c)
        rng == ImgRange_TM2020(c, it)
    IN  IF \/ Len(d) < 8
           \/ \E k \in 1..Len(rng) : ~ValidIdx(D(d, 0), rng[k])
           \/ \E k \in 1..Len(rng) : PyAt(D(d, 0), rng[k]) \notin DOMAIN fl
           \/ \E j \in {2, 3, 4} : ~ValidIdx(D(d, j), idx_last)
           \/ \E j \in {1, 2, 3, 4, 5, 6, 7} : ~ValidIdx(D(d, j), idx_now)
        THEN Raised
        ELSE LET acts == load_acts(c, d, it)
                 imgs == load_imgs_TM2020(c, d, fl, it)
             IN  [status   |-> "ok",
                  last_obs |-> [scalars |-> [j \in 1..3 |-> PyAt(D(d, j + 1), idx_last)],
                                imgs    |-> PyInit(imgs),
                                acts    |-> PyInit(acts)],
                  new_act  |-> Float32Array(PyAt(D(d, 1), idx_now)),
                  rew      |-> Float32(PyAt(D(d, 6), idx_now)),
                  new_obs  |-> [scalars |-> [j \in 1..3 |-> PyAt(D(d, j + 1), idx_now)],
                                imgs    |-> PyTail(imgs),
                                acts    |-> PyTail(acts)],
                  done     |-> PyAt(D(d, 5), idx_now),
                  info     |-> PyAt(D(d, 7), idx_now)]

get_transition_Cognifly(c, d, it) ==
    LET idx_last == it + min_samples(c) - 1
        idx_now == it + min_samples(c)
    IN  IF \/ Len(d) < 11
           \/ \E j \in 2..7 : ~ValidIdx(D(d, j), idx_last)
           \/ \E j \in 1..10 : ~ValidIdx(D(d, j), idx_now)
        THEN Raised
        ELSE LET acts == load_acts(c, d, it)
             IN  [status   |-> "ok",
                  last_obs |-> [scalars |-> [j \in 1..6 |-> PyAt(D(d, j + 1), idx_last)],
                                imgs    |-> <<>>,
                                acts    |-> PyInit(acts)],
                  new_act  |-> Float32Array(PyAt(D(d, 1), idx_now)),
                  rew      |-> Float32(PyAt(D(d, 9), idx_now)),
                  new_obs  |-> [scalars |-> [j \in 1..6 |-> PyAt(D(d, j + 1), idx_now)],
                                imgs    |-> <<>>,
                                acts    |-> PyTail(acts)],
                  done     |-> PyAt(D(d, 8), idx_now),
                  info     |-> PyAt(D(d, 10), idx_now)]

get_transition(c, d, fl, it) ==
    CASE c.variant = "Lidar" -> get_transition_Lidar(c, d, it)
      [] c.variant = "TM2020" -> get_transition_TM2020(c, d, fl, it)
      [] c.variant = "Cognifly" -> get_transition_Cognifly(c, d, it)

\* TrajMemoryTMNFLidar.load_imgs_traj, before np.stack
load_imgs_traj(c, d, it) ==
    PySlice(D(d, 3), it + start_imgs_offset(c),
            it + start_imgs_offset(c) + c.imgs_obs + c.traj_len)

\* an action window that starts one row late
load_acts_traj_late(c, d, it) ==
    PySlice(D(d, 1), it + start_acts_offset(c) + 1,
            it + start_acts_offset(c) + c.act_buf_len + c.traj_len)

\* TrajMemoryTMNFLidar.load_acts_traj
load_acts_traj(c, d, it) ==
    PySlice(D(d, 1), it + start_acts_offset(c),
            it + start_acts_offset(c) + c.act_buf_len + c.traj_len)

get_trajectory(c, d, it) ==
    LET idx_now == it + min_samples(c)
    IN  IF \/ Len(d) < 7
           \/ load_imgs_traj(c, d, it) = <<>>       \* np.stack of an empty list
           \/ \E i \in 0..(c.traj_len - 1) :
                \E j \in {5, 2, 4, 6} : ~ValidIdx(D(d, j), idx_now + i)
        THEN Raised
        ELSE LET all_acts == load_acts_traj(c, d, it)
                 all_imgs == load_imgs_traj(c, d, it)
             IN  [status        |-> "ok",
                  augm_obs_traj |->
                      [k \in 1..c.traj_len |->
                          LET i == k - 1
                          IN  [scalars |-> <<PyAt(D(d, 2), idx_now + i)>>,
                               imgs    |-> PySlice(all_imgs, 1 + i, c.imgs_obs + i + 1),
                               acts    |-> PySlice(all_acts, 1 + i, c.act_buf_len + i + 1)]],
                  rew_traj      |-> [k \in 1..c.traj_len |->
                                        Float32(PyAt(D(d, 5), idx_now + (k - 1)))],
                  done_traj     |-> [k \in 1..c.traj_len |-> PyAt(D(d, 4), idx_now + (k - 1))],
                  info_traj     |-> [k \in 1..c.traj_len |-> PyAt(D(d, 6), idx_now + (k - 1))]]

---------------------------------------------------------------------------
(* The memory as a state machine: append_buffer and the two extractors *)

MemConfigs ==
    {c \in [variant : Variants, imgs_obs : ImgsObsValues, act_buf_len : 1..MaxActBufLen,
            traj_len : 1..MaxTrajLen, memory_size : MemorySizes] :
        c.variant # "Traj" => c.traj_len = 1}

NoFiles == [name \in {} |-> <<>>]

NotCalled == [status |-> "none"]

\* the loop is not running
LoopOff ==
    /\ tcfg = [epochs |-> 0, rounds |-> 0, steps |-> 0, update_model_interval |-> 1,
               ratio_num |-> 1, ratio_den |-> 1]
    /\ pc = "off"
    /\ ret = "update"
    /\ rnd = 0
    /\ step = 0
    /\ epoch = 0
    /\ total_updates = 0
    /\ total_samples = 0
    /\ broadcasts = 0
    /\ last_buffer = -1

\* the "_remove_on_exit" of iterate_epochs_tm
Suffix == "_remove_on_exit"

\* checkpoint_path = None (or ""): no path given
None == <<>>

\* tempfile.mktemp(suffix): the name of a file that does not exist, ending
\* with suffix; a path is the sequence of the pieces of its name
mktemp(suffix) == <<"tmp", suffix>>

\* the values of the argument checkpoint_path
ArgPaths == {None, <<"run", ".ckpt">>, <<"run", Suffix>>, <<"run", Suffix, ".bak">>}

Paths == (ArgPaths \ {None}) \cup {mktemp(Suffix)}

Absent == [status |-> "absent"]

\* the local run_instance before its assignment
Unbound == [status |-> "unbound"]

\* no generator of iterate_epochs_tm exists
RunOff ==
    /\ checkpoint_path = None
    /\ disk = [p \in Paths |-> Absent]
    /\ gpc = "off"
    /\ existed = "unknown"
    /\ run_instance = Unbound
    /\ exc = "none"

\* MemoryDataloading.__init__ without a data file: self.data = []
EmptyMemory ==
    /\ data = <<>>
    /\ files = NoFiles
    /\ appended = 0
    /\ nb_appends = 0
    /\ peak = 0
    /\ trimmed = 0
    /\ item = NoCall
    /\ out = NotCalled

Init ==
    /\ cfg \in MemConfigs
    /\ EmptyMemory
    /\ LoopOff
    /\ RunOff

\* the effect of append_buffer(buffer), len(buffer.memory) = n, on the memory
DoAppend(n) ==
    LET buf == BufferMemory(cfg.variant, appended, n)
        ext == Extend(cfg, data, Columns(cfg, FirstDataIdx(cfg, data), buf))
    IN  /\ data' = append_buffer(cfg, data, buf)
        /\ files' = WriteImages(cfg, files, Columns(cfg, FirstDataIdx(cfg, data), buf)[1], buf)
        /\ appended' = appended + n
        /\ nb_appends' = nb_appends + 1
        /\ peak' = row_count(ext)
        /\ trimmed' = Max(0, ToTrim(cfg, ext))
        /\ item' = NoCall
        /\ out' = NotCalled
        /\ UNCHANGED cfg

AppendBuffer(n) ==
    /\ nb_appends < MaxAppends
    /\ appended + n <= MaxTotal
    /\ DoAppend(n)
    /\ UNCHANGED lvars
    /\ UNCHANGED rvars

\* the items tried: all valid ones and some beyond either end
Items == (-MaxItemOver)..(__len__(cfg, data) + MaxItemOver - 1)

GetTransition(it) ==
    /\ cfg.variant # "Traj"
    /\ it \in Items
    /\ item' = it
    /\ out' = get_transition(cfg, data, files, it)
    /\ UNCHANGED <<cfg, data, files, appended, nb_appends, peak, trimmed>>
    /\ UNCHANGED lvars
    /\ UNCHANGED rvars

GetTrajectory(it) ==
    /\ cfg.variant = "Traj"
    /\ it \in Items
    /\ item' = it
    /\ out' = get_trajectory(cfg, data, it)
    /\ UNCHANGED <<cfg, data, files, appended, nb_appends, peak, trimmed>>
    /\ UNCHANGED lvars
    /\ UNCHANGED rvars

Next ==
    \/ \E n \in 0..MaxTotal : AppendBuffer(n)
    \/ \E it \in (-MaxItemOver)..(MaxTotal + MaxItemOver) : GetTransition(it)
    \/ \E it \in (-MaxItemOver)..(MaxTotal + MaxItemOver) : GetTrajectory(it)

Spec == Init /\ [][Next]_vars

---------------------------------------------------------------------------
(* TrainingOffline: update_buffer, check_ratio, run_epoch *)

MaxSamples == 6       \* samples the interface delivers in one behaviour
MaxBuffer == 3        \* largest buffer retrieve_buffer returns
MaxRetrievals == 6    \* retrieve_buffer calls in one behaviour
MaxEpochs == 2        \* epochs ranges over 1..MaxEpochs
MaxRounds == 2        \* rounds ranges over 1..MaxRounds

TrainConfigs ==
    [epochs : 1..MaxEpochs, rounds : 1..MaxRounds, steps : {2},
     update_model_interval : {2}, ratio_num : {1, 2}, ratio_den : {1, 2}]

LoopMemConfigs ==
    {c \in MemConfigs : /\ c.variant \in {"Lidar", "TM2020"}
                        /\ c.imgs_obs = 1
                        /\ c.act_buf_len = 1
                        /\ c.memory_size = 2}

\* a ratio that reads 0.0 while no sample was ever counted
Ratio_zero(u, s) == IF s > 0 THEN [num |-> u, den |-> s] ELSE [num |-> 0, den |-> 1]

\* ratio of check_ratio, as the fraction num/den; -1.0 is -1/1
Ratio(u, s) == IF s > 0 THEN [num |-> u, den |-> s] ELSE [num |-> -1, den |-> 1]

\* a test that lets the ratio pass the ceiling by one update before it waits
Starved_late(t, u, s) ==
    \/ (Ratio(u, s).num - 1) * t.ratio_den > t.ratio_num * Ratio(u, s).den
    \/ Ratio(u, s).num = -1 * Ratio(u, s).den

\* ratio > self.max_training_steps_per_env_step or ratio == -1.0
Starved(t, u, s) ==
    \/ Ratio(u, s).num * t.ratio_den > t.ratio_num * Ratio(u, s).den
    \/ Ratio(u, s).num = -1 * Ratio(u, s).den

\* TrainingOffline.__post_init__ : a new memory, epoch 0, no update yet
InitLoop ==
    /\ cfg \in LoopMemConfigs
    /\ EmptyMemory
    /\ tcfg \in TrainConfigs
    /\ pc = "start"
    /\ ret = "update"
    /\ rnd = 0
    /\ step = 0
    /\ epoch = 0
    /\ total_updates = 0
    /\ total_samples = __len__(cfg, data)
    /\ broadcasts = 0
    /\ last_buffer = -1
    /\ RunOff

\* self.memory.append(buffer)
MemoryAppend(n) == DoAppend(n)

\* update_buffer with a buffer of n samples from interface.retrieve_buffer()
update_buffer(n) ==
    /\ nb_appends < MaxRetrievals
    /\ appended + n <= MaxSamples
    /\ MemoryAppend(n)
    /\ total_samples' = total_samples + n
    /\ last_buffer' = n

\* the while loop of iterate_epochs_tm enters run_epoch, which starts its
\* first round with check_ratio
RunEpoch ==
    /\ pc = "start"
    /\ epoch < tcfg.epochs
    /\ rnd' = 0
    /\ pc' = "check"
    /\ ret' = "update"
    /\ UNCHANGED <<tcfg, step, epoch, total_updates, total_samples, broadcasts, last_buffer>>
    /\ UNCHANGED mvars
    /\ UNCHANGED rvars

\* check_ratio: the test before the while loop
CheckRatio ==
    /\ pc = "check"
    /\ pc' = IF Starved(tcfg, total_updates, total_samples) THEN "poll" ELSE ret
    /\ UNCHANGED <<tcfg, ret, rnd, step, epoch, total_updates, total_samples,
                   broadcasts, last_buffer>>
    /\ UNCHANGED mvars
    /\ UNCHANGED rvars

\* check_ratio: one pass of the while loop up to the sleep
Poll(n) ==
    /\ pc = "poll"
    /\ update_buffer(n)
    /\ pc' = IF Starved(tcfg, total_updates, total_samples') THEN "sleep" ELSE ret
    /\ UNCHANGED <<tcfg, ret, rnd, step, epoch, total_updates, broadcasts>>
    /\ UNCHANGED rvars

\* check_ratio: time.sleep returns and the while loop tests again
Sleep ==
    /\ pc = "sleep"
    /\ pc' = "poll"
    /\ UNCHANGED <<tcfg, ret, rnd, step, epoch, total_updates, total_samples,
                   broadcasts, last_buffer>>
    /\ UNCHANGED mvars
    /\ UNCHANGED rvars

\* run_epoch: the update_buffer call of a round
RoundUpdateBuffer(n) ==
    /\ pc = "update"
    /\ update_buffer(n)
    /\ pc' = "iter"
    /\ step' = 0
    /\ UNCHANGED <<tcfg, ret, rnd, epoch, total_updates, broadcasts>>
    /\ UNCHANGED rvars

\* the iteration over the memory draws a batch: an item of [0, len(memory))
\* and its transition; there is none to draw from an empty range
DrawBatch(it) ==
    /\ it \in 0..(__len__(cfg, data) - 1)
    /\ item' = it
    /\ out' = get_transition(cfg, data, files, it)

\* a test that broadcasts on every update once the interval is reached
BroadcastDue_always(t, u) == u >= t.update_model_interval

\* if self.total_updates % self.update_model_interval == 0
BroadcastDue(t, u) == u % t.update_model_interval = 0

\* run_epoch: one pass of the for loop over the memory
TrainStep ==
    /\ pc = "iter"
    /\ step < tcfg.steps
    /\ \/ /\ \E it \in 0..MaxSamples : DrawBatch(it)
          /\ IF out'.status = "ok"
             THEN /\ total_updates' = total_updates + 1
                  /\ broadcasts' = IF BroadcastDue(tcfg, total_updates + 1)
                                   THEN broadcasts + 1 ELSE broadcasts
                  /\ step' = step + 1
                  /\ pc' = "check"
                  /\ ret' = "iter"
             ELSE /\ pc' = "error"
                  /\ UNCHANGED <<total_updates, broadcasts, step, ret>>
       \/ /\ __len__(cfg, data) = 0
          /\ pc' = "error"
          /\ UNCHANGED <<total_updates, broadcasts, step, ret, item, out>>
    /\ UNCHANGED <<tcfg, rnd, epoch, total_samples, last_buffer>>
    /\ UNCHANGED <<cfg, data, files, appended, nb_appends, peak, trimmed>>
    /\ UNCHANGED rvars

\* a loop over the rounds that makes one round more
MoreRounds_extra(t, r) == r < t.rounds

\* for rnd in range(self.rounds): a round follows the r-th one
MoreRounds(t, r) == r < t.rounds - 1

\* run_epoch: the iteration over the memory is exhausted; next round, or
\* self.epoch += 1 after the last one
EndRound ==
    /\ pc = "iter"
    /\ step = tcfg.steps
    /\ rnd' = rnd + 1
    /\ IF MoreRounds(tcfg, rnd)
       THEN /\ pc' = "check"
            /\ ret' = "update"
            /\ UNCHANGED epoch
       ELSE /\ pc' = "start"
            /\ epoch' = epoch + 1
            /\ UNCHANGED ret
    /\ UNCHANGED <<tcfg, step, total_updates, total_samples, broadcasts, last_buffer>>
    /\ UNCHANGED mvars
    /\ UNCHANGED rvars

NextLoop ==
    \/ RunEpoch
    \/ CheckRatio
    \/ \E n \in 0..MaxBuffer : Poll(n)
    \/ Sleep
    \/ \E n \in 0..MaxBuffer : RoundUpdateBuffer(n)
    \/ TrainStep
    \/ EndRound

SpecLoop == InitLoop /\ [][NextLoop]_vars

---------------------------------------------------------------------------
(* iterate_epochs_tm of tmrl/training.py, iterated by run *)

\* the names bound in the module training.py when iterate_epochs_tm runs: its
\* imports (lines 1-19) and its definitions
ModuleNames ==
    {"atexit", "gc", "json", "os", "shutil", "tempfile", "time", "dataclass",
     "exists", "randrange", "mkdtemp", "pd", "yaml", "ABC", "abstractmethod",
     "TrainerInterface", "dump", "git_info", "load", "load_json", "partial",
     "partial_from_dict", "partial_to_dict", "save_json", "cfg", "cfg_obj",
     "log_environment_variables", "load_run_instance", "dump_run_instance",
     "iterate_epochs_tm", "run_with_wandb", "run", "Trainer", "TrainingAgent"}

\* evaluating the name n raises NameError unless the module binds it
NameDefined(n) == n \in ModuleNames

\* os.path.exists(p)
exists(d, p) == d[p] # Absent

\* a test on the first piece of the name
endswith_first(p, s) == Len(p) > 0 /\ p[1] = s

\* p.endswith(s)
endswith(p, s) == Len(p) > 0 /\ p[Len(p)] = s

\* the files a checkpoint path may hold when the generator is created
Checkpoints == [status : {"checkpoint"}, epoch : 0..MaxEpochs, total_samples : {0, MaxBuffer}]

\* the fields of run_cls, of which the generator reads epochs
RunConfigs ==
    {t \in TrainConfigs : t.rounds = 1 /\ t.ratio_num = 1 /\ t.ratio_den = 1}

\* run calls iterate_epochs_tm(run_cls, interface, checkpoint_path): the
\* generator is created, none of its code has run; the name mktemp returns
\* is not the name of a file
InitRun ==
    /\ cfg \in LoopMemConfigs
    /\ EmptyMemory
    /\ tcfg \in RunConfigs
    /\ pc = "off"
    /\ ret = "update"
    /\ rnd = 0
    /\ step = 0
    /\ epoch = 0
    /\ total_updates = 0
    /\ total_samples = 0
    /\ broadcasts = 0
    /\ last_buffer = -1
    /\ checkpoint_path \in ArgPaths
    /\ disk \in [Paths -> Checkpoints \cup {Absent}]
    /\ disk[mktemp(Suffix)] = Absent
    /\ gpc = "created"
    /\ existed = "unknown"
    /\ run_instance = Unbound
    /\ exc = "none"

\* the for statement of run starts the generator: line 63, then the try
IterateEpochsStart ==
    /\ gpc = "created"
    /\ checkpoint_path' = IF checkpoint_path = None THEN mktemp(Suffix)
                                                    ELSE checkpoint_path
    /\ gpc' = "try"
    /\ UNCHANGED <<disk, existed, run_instance, exc>>
    /\ UNCHANGED <<mvars, lvars>>

\* if not exists(checkpoint_path)
TestExists ==
    /\ gpc = "try"
    /\ existed' = IF exists(disk, checkpoint_path) THEN "yes" ELSE "no"
    /\ gpc' = IF exists(disk, checkpoint_path) THEN "load" ELSE "new"
    /\ UNCHANGED <<checkpoint_path, disk, run_instance, exc>>
    /\ UNCHANGED <<mvars, lvars>>

\* line 67, the first statement of the branch that would construct and dump
\* the instance: logging.info, and training.py binds no name logging
LogSpecification ==
    /\ gpc = "new"
    /\ ~NameDefined("logging")
    /\ exc' = "NameError"
    /\ gpc' = "finally"
    /\ UNCHANGED <<checkpoint_path, disk, existed, run_instance>>
    /\ UNCHANGED <<mvars, lvars>>

\* line 72, the first statement of the branch that would load the instance:
\* logging.info again
LogLoading ==
    /\ gpc = "load"
    /\ ~NameDefined("logging")
    /\ exc' = "NameError"
    /\ gpc' = "finally"
    /\ UNCHANGED <<checkpoint_path, disk, existed, run_instance>>
    /\ UNCHANGED <<mvars, lvars>>

\* the finally clause, after which the exception leaves the generator
Finally ==
    /\ gpc = "finally"
    /\ disk' = IF endswith(checkpoint_path, Suffix) /\ exists(disk, checkpoint_path)
               THEN [disk EXCEPT ![checkpoint_path] = Absent]
               ELSE disk
    /\ gpc' = "raised"
    /\ UNCHANGED <<checkpoint_path, existed, run_instance, exc>>
    /\ UNCHANGED <<mvars, lvars>>

NextRun ==
    \/ IterateEpochsStart
    \/ TestExists
    \/ LogSpecification
    \/ LogLoading
    \/ Finally

SpecRun == InitRun /\ [][NextRun]_vars

---------------------------------------------------------------------------
(* Claims on append_buffer and __len__ *)

\* the sample a stored value comes from
SampleOf(x) == x[2]

\* the lists of the variant's fields
FieldLists == 1..Min(Len(data), NbFields(cfg.variant))

\* append_buffer of 150 samples on a new MemoryTMNFLidar(memory_size=100),
\* imgs_obs=4, act_buf_len=1
Cfg150 == [variant |-> "Lidar", imgs_obs |-> 4, act_buf_len |-> 1, traj_len |-> 1,
           memory_size |-> 100]
Data150 == append_buffer(Cfg150, <<>>, BufferMemory("Lidar", 0, 150))

C4_FieldAlignment ==
    nb_appends > 0 =>
        /\ Len(data) = NbFields(cfg.variant)
        /\ \A j \in 1..Len(data) : Len(data[j]) = Len(data[1])
        /\ \A j \in 3..Len(data) : \A i \in 1..Len(data[j]) :
              i <= Len(data[2]) /\ SampleOf(data[j][i]) = SampleOf(data[2][i])

\* C5: in the two Lidar variants the k-th sample ever appended is stored with
\* index k: every list of indexes that append_buffer stored numbers its rows
\* with the ordinals of their samples.
C5_IndexIsOrdinal ==
    cfg.variant \in {"Lidar", "Traj"} =>
        \A g \in 0..MaxAppends :
            (7 * g + 2 <= Len(data)) =>
                \A i \in 1..Len(data[7 * g + 1]) :
                    data[7 * g + 1][i] = SampleOf(data[7 * g + 2][i])

C7_LenFormula ==
    __len__(cfg, data) = Max(0, row_count(data) - min_samples(cfg) - 1)

---------------------------------------------------------------------------
(* Claims on get_transition and get_trajectory *)

\* the last extraction call had a valid item
ValidItem == item \in 0..(__len__(cfg, data) - 1)

\* the global index stored in row r (counted from 0)
IndexOfRow(r) == D(data, 0)[r + 1]

\* the samples the values of a window come from
SamplesOf(w) == [i \in 1..Len(w) |-> SampleOf(w[i])]

\* the rows first .. first + n - 1, in order
Rows(first, n) == [i \in 1..n |-> first + (i - 1)]

\* the observation of MemoryTMNFLidar built from the samples kw (images),
\* ka (actions) and k (speed)
LidarObs(k, kw, ka) ==
    [scalars |-> << <<"obs0", k, "raw">> >>,
     imgs    |-> [i \in 1..Len(kw) |-> <<"obs1", kw[i], "raw">>],
     acts    |-> [i \in 1..Len(ka) |-> <<"act", ka[i], "raw">>]]

\* C3: for a valid item of MemoryTMNFLidar, whatever imgs_obs and act_buf_len,
\* the new observation ends its image stack and its action buffer with the
\* row item + min_samples, the row of its speed, reward, done, info and
\* new_act, and the last observation ends both with the row
\* item + min_samples - 1.
C3_WindowAlignment ==
    (cfg.variant = "Lidar" /\ ValidItem) =>
        LET kn == IndexOfRow(item + min_samples(cfg))
            kl == IndexOfRow(item + min_samples(cfg) - 1)
        IN  /\ out.status = "ok"
            /\ Len(out.new_obs.imgs) > 0 /\ Len(out.new_obs.acts) > 0
            /\ Len(out.last_obs.imgs) > 0 /\ Len(out.last_obs.acts) > 0
            /\ out.new_obs.imgs[Len(out.new_obs.imgs)] = <<"obs1", kn, "raw">>
            /\ out.new_obs.acts[Len(out.new_obs.acts)] = <<"act", kn, "raw">>
            /\ out.new_obs.scalars = << <<"obs0", kn, "raw">> >>
            /\ out.rew = <<"rew", kn, "f32">>
            /\ out.done = <<"done", kn, "raw">>
            /\ out.info = <<"info", kn, "raw">>
            /\ out.new_act = <<"act", kn, "raw">>
            /\ out.last_obs.imgs[Len(out.last_obs.imgs)] = <<"obs1", kl, "raw">>
            /\ out.last_obs.acts[Len(out.last_obs.acts)] = <<"act", kl, "raw">>
            /\ out.last_obs.scalars = << <<"obs0", kl, "raw">> >>

C3_Witness ==
    /\ cfg.variant = "Lidar"
    /\ ValidItem
    /\ item > 0
    /\ cfg.imgs_obs < cfg.act_buf_len
    /\ out.status = "ok"

\* C8: for a valid item, get_transition of MemoryTMNFLidar uses exactly the
\* imgs_obs + 1 image rows from item + start_imgs_offset on and the
\* act_buf_len + 1 action rows from item + start_acts_offset on; with
\* imgs_obs = 4, act_buf_len = 1, memory_size = 100 and 10 samples appended,
\* len(memory) is 5 and get_transition(0) uses the images of rows 0..4, the
\* actions of rows 3..4, the speed of row 3 (last) and of row 4 (new).
C8_WindowExtent ==
    /\ (cfg.variant = "Lidar" /\ ValidItem) =>
          LET fi == IndexOfRow(item + start_imgs_offset(cfg))
              fa == IndexOfRow(item + start_acts_offset(cfg))
          IN  /\ out.status = "ok"
              /\ fi = IndexOfRow(0) + item + start_imgs_offset(cfg)
              /\ fa = IndexOfRow(0) + item + start_acts_offset(cfg)
              /\ SamplesOf(out.last_obs.imgs) = Rows(fi, cfg.imgs_obs)
              /\ SamplesOf(out.new_obs.imgs) = Rows(fi + 1, cfg.imgs_obs)
              /\ SamplesOf(out.last_obs.acts) = Rows(fa, cfg.act_buf_len)
              /\ SamplesOf(out.new_obs.acts) = Rows(fa + 1, cfg.act_buf_len)
    /\ (/\ cfg = [variant |-> "Lidar", imgs_obs |-> 4, act_buf_len |-> 1,
                  traj_len |-> 1, memory_size |-> 100]
        /\ row_count(data) = 10) =>
          /\ __len__(cfg, data) = 5
          /\ item = 0 =>
                /\ out.last_obs = LidarObs(3, <<0, 1, 2, 3>>, <<3>>)
                /\ out.new_obs = LidarObs(4, <<1, 2, 3, 4>>, <<4>>)

C8_Witness ==
    /\ cfg = [variant |-> "Lidar", imgs_obs |-> 4, act_buf_len |-> 1,
              traj_len |-> 1, memory_size |-> 100]
    /\ row_count(data) = 10
    /\ item = 0
    /\ out.status = "ok"

\* step k of a trajectory, with the fields get_trajectory returns for it
TrajectoryStep(tr, k) ==
    [new_obs |-> tr.augm_obs_traj[k],
     rew     |-> tr.rew_traj[k],
     done    |-> tr.done_traj[k],
     info    |-> tr.info_traj[k]]

\* get_transition(item) of a MemoryTMNFLidar with the same rows and arguments
SameAsLidar == get_transition_Lidar([cfg EXCEPT !.variant = "Lidar"], data, item)

TrajOfOne == cfg.variant = "Traj" /\ cfg.traj_len = 1 /\ ValidItem

C10_OutOfRangeRaises ==
    (item # NoCall /\ ~ValidItem) => out.status = "error"

---------------------------------------------------------------------------
(* Claims on the training loop *)

\* C2: in every state of the loop, total_samples > 0 implies
\* total_updates <= max_training_steps_per_env_step * total_samples + 1, and
\* no update was made while total_samples was 0.
C2_RatioInvariant ==
    /\ total_samples > 0 =>
          total_updates * tcfg.ratio_den
              <= tcfg.ratio_num * total_samples + tcfg.ratio_den
    /\ total_samples = 0 => total_updates = 0

\* the ratio is above the ceiling, by the update just made
C2_Witness ==
    /\ total_samples > 0
    /\ total_updates * tcfg.ratio_den > tcfg.ratio_num * total_samples
    /\ pc = "check"

\* the loop is starved in the words of the pacing rule: no sample yet, or
\* more updates per sample than max_training_steps_per_env_step
AboveCeiling(u, s) == s = 0 \/ u * tcfg.ratio_den > tcfg.ratio_num * s

\* C11: check_ratio waits (polls the interface) exactly when total_samples is
\* 0 or total_updates / total_samples is strictly above the ceiling, at its
\* first test and after every retrieved buffer; a ratio equal to the ceiling
\* passes (1000/1000 with ceiling 1.0 passes, 1001/1000 waits); and no
\* training step is made from a state above the ceiling.
C11_StarvedClassification ==
    [][/\ pc = "check" =>
              (pc' = "poll" <=> AboveCeiling(total_updates, total_samples))
       /\ pc = "poll" =>
              (pc' = "sleep" <=> AboveCeiling(total_updates', total_samples'))
       /\ total_updates' # total_updates =>
              ~AboveCeiling(total_updates, total_samples)
       /\ ~Starved([ratio_num |-> 1, ratio_den |-> 1], 1000, 1000)
       /\ Starved([ratio_num |-> 1, ratio_den |-> 1], 1001, 1000)]_vars

\* a check passed with the ratio equal to the ceiling, training goes on
C11_Witness ==
    /\ pc = "iter"
    /\ ret = "iter"
    /\ step < tcfg.steps
    /\ total_updates > 0
    /\ total_updates * tcfg.ratio_den = tcfg.ratio_num * total_samples

\* a step of update_buffer whose retrieved buffer is empty
EmptyBufferStep == nb_appends' = nb_appends + 1 /\ last_buffer' = 0

---------------------------------------------------------------------------
(* Claims on iterate_epochs_tm *)

\* the try block of the generator was left
TryLeft == gpc \in {"finally", "raised"}

\* C14: started with a checkpoint_path that holds a checkpoint, the
\* generator loads the run instance instead of constructing it, so that
\* run_instance is the checkpointed instance (its epoch, counters and memory
\* those of the last dump), and goes on with the remaining epochs: it does not
\* leave its try block with run_instance unbound or with an exception of its
\* own.
C14_ResumeEquivalence ==
    (gpc = "finally" /\ existed = "yes") =>
        /\ run_instance = disk[checkpoint_path]
        /\ exc = "none"

\* C15: started without a file at checkpoint_path, the generator constructs
\* the instance and dumps it before the first epoch: it does not leave its
\* try block without an instance and without a checkpoint file written.
C15_CheckpointCadence ==
    (gpc = "finally" /\ existed = "no") =>
        /\ run_instance # Unbound
        /\ disk[checkpoint_path] # Absent

\* the path is one of a temporary checkpoint
IsTemporary(p) == Len(p) > 0 /\ p[Len(p)] = "_remove_on_exit"

\* C16: when iterate_epochs_tm has ended, no file is left at a
\* checkpoint_path that ends with "_remove_on_exit", and no step of
\* iterate_epochs_tm deletes or changes a file whose path does not end with it.
C16_TemporaryCheckpointCleanup ==
    [][/\ (gpc' = "raised" /\ IsTemporary(checkpoint_path')) =>
              disk'[checkpoint_path'] = Absent
       /\ \A p \in Paths : ~IsTemporary(p) => disk'[p] = disk[p]]_vars

\* the generator has ended, the temporary checkpoint it was given is removed
\* and the two files of the other paths are still there
C16_Witness ==
    /\ gpc = "raised"
    /\ existed = "yes"
    /\ IsTemporary(checkpoint_path)
    /\ disk[checkpoint_path] = Absent
    /\ disk[<<"run", ".ckpt">>] # Absent
    /\ disk[<<"run", "_remove_on_exit", ".bak">>] # Absent

---------------------------------------------------------------------------
(* Further claims on the memory *)

\* the lists of self.data do not all have the same length
Misaligned == \E j, k \in 1..Len(data) : Len(data[j]) # Len(data[k])

\* C17: in a state where the lists of self.data have unequal lengths an
\* extraction call ends in an error instead of returning a transition; stated
\* here for the calls with a valid item, the ones the training loop makes.
C17_MisalignedRaises ==
    (ValidItem /\ Misaligned) => out.status = "error"

\* C18: in the two Lidar variants, after any sequence of append_buffer calls,
\* every field list holds exactly the newest samples ever appended, in
\* arrival order: the samples appended - n, ..., appended - 1 for a list of n
\* rows.
C18_FifoSuffix ==
    (cfg.variant \in {"Lidar", "Traj"} /\ nb_appends > 0) =>
        \A j \in 2..7 :
            SamplesOf(data[j]) = Rows(appended - Len(data[j]), Len(data[j]))

\* C19: for every traj_len, every valid item and every step k of the
\* trajectory, get_trajectory(item) builds step k from the speed, reward,
\* done and info of the row idx_now + k (idx_now = item + min_samples), from
\* exactly imgs_obs images and exactly act_buf_len actions, the rows that end
\* with the row idx_now + k.
C19_TrajectoryWindowing ==
    (cfg.variant = "Traj" /\ ValidItem) =>
        /\ out.status = "ok"
        /\ \A k \in 0..(cfg.traj_len - 1) :
              LET kn == IndexOfRow(item + min_samples(cfg) + k)
                  st == out.augm_obs_traj[k + 1]
              IN  /\ st.scalars = << <<"obs0", kn, "raw">> >>
                  /\ out.rew_traj[k + 1] = <<"rew", kn, "f32">>
                  /\ out.done_traj[k + 1] = <<"done", kn, "raw">>
                  /\ out.info_traj[k + 1] = <<"info", kn, "raw">>
                  /\ SamplesOf(st.imgs) = Rows(kn - cfg.imgs_obs + 1, cfg.imgs_obs)
                  /\ SamplesOf(st.acts) = Rows(kn - cfg.act_buf_len + 1, cfg.act_buf_len)

\* the Python positions MemoryTMNFLidar.get_transition(it) reads in the field
\* lists: the two windows, idx_last and idx_now
RowsRead(c, it) ==
    ((it + start_imgs_offset(c))..(it + start_imgs_offset(c) + c.imgs_obs))
        \cup ((it + start_acts_offset(c))..(it + start_acts_offset(c) + c.act_buf_len))
        \cup {it + min_samples(c) - 1, it + min_samples(c)}

\* every row get_transition(it) reads exists in the store
Reconstructible(it) == RowsRead(cfg, it) \subseteq 0..(row_count(data) - 1)

\* the reconstructible items; an item reads the row item + min_samples, so
\* none lies beyond the row count
ReconstructibleItems ==
    {it \in (-MaxItemOver)..row_count(data) : Reconstructible(it)}

\* C20 (as stated): the items of MemoryTMNFLidar for which every row read by
\* get_transition exists are exactly 0 .. len(memory) - 1; item = len(memory)
\* is not one of them.
C20_LenIsReconstructibleCount ==
    cfg.variant = "Lidar" =>
        /\ ReconstructibleItems = 0..(__len__(cfg, data) - 1)
        /\ ~Reconstructible(__len__(cfg, data))

\* C20 (amended): every item of 0 .. len(memory) - 1 is reconstructible, and
\* len(memory) undercounts by one: with at least min_samples + 1 rows stored
\* the reconstructible items are exactly 0 .. len(memory), with fewer rows
\* there is none; get_transition returns for a reconstructible item and raises
\* for every other item >= 0.
C20_LenUndercountsByOne ==
    cfg.variant = "Lidar" =>
        /\ (0..(__len__(cfg, data) - 1)) \subseteq ReconstructibleItems
        /\ ReconstructibleItems =
              IF row_count(data) >= min_samples(cfg) + 1
              THEN 0..__len__(cfg, data) ELSE {}
        /\ (item # NoCall /\ item >= 0) =>
              (out.status = "ok" <=> Reconstructible(item))

\* get_transition(len(memory)) returned, from rows that all exist
C20_Witness ==
    /\ cfg.variant = "Lidar"
    /\ item = __len__(cfg, data)
    /\ item > 0
    /\ Reconstructible(item)
    /\ out.status = "ok"

---------------------------------------------------------------------------
(* Further claims on the training loop *)

\* C21: the loop does not stall: once retrieved buffers have ended a STARVED
\* episode a training step follows, so a loop that has counted at least
\* min_samples + 2 samples, enough for one transition, never leaves the
\* iteration over the memory with an error in place of a training step; only
\* a loop that is handed empty buffers keeps polling.
C21_StarvationEndsInTraining ==
    (pc = "error") => total_samples < min_samples(cfg) + 2

\* C22: a run_epoch call makes exactly rounds rounds, each one a starvation
\* check, then exactly one buffer retrieval, then one iteration over the
\* memory with a pacing check after every update; self.epoch grows by exactly
\* 1, after the last round; total_updates and total_samples never decrease.
C22_EpochStructure ==
    [][/\ epoch' # epoch =>
              /\ epoch' = epoch + 1
              /\ rnd' = tcfg.rounds
              /\ pc = "iter" /\ step = tcfg.steps /\ pc' = "start"
       /\ rnd' # rnd =>
              \/ pc = "start" /\ rnd' = 0
              \/ pc = "iter" /\ step = tcfg.steps /\ rnd' = rnd + 1
                    /\ rnd' <= tcfg.rounds
       /\ (pc # "update" /\ pc' = "update") =>
              /\ pc \in {"check", "poll"}
              /\ ~AboveCeiling(total_updates', total_samples')
       /\ (pc = "update" /\ pc' # "update") =>
              /\ pc' = "iter" /\ step' = 0
              /\ nb_appends' = nb_appends + 1
       /\ (pc = "iter" /\ pc' # "iter") =>
              \/ total_updates' = total_updates + 1 /\ step' = step + 1
                    /\ pc' = "check" /\ ret' = "iter"
              \/ step = tcfg.steps /\ pc' \in {"check", "start"}
                    /\ UNCHANGED <<total_updates, nb_appends>>
              \/ pc' = "error" /\ UNCHANGED <<total_updates, nb_appends, epoch, rnd>>
       /\ total_updates' >= total_updates
       /\ total_samples' >= total_samples]_vars

\* a run_epoch call of two rounds has returned
C22_Witness ==
    /\ pc = "start"
    /\ epoch = 1
    /\ tcfg.rounds = 2
    /\ rnd = 2
    /\ total_updates = 2 * tcfg.steps

---------------------------------------------------------------------------
(* Claims on the indexes of MemoryTM2020 and on the rows the extractors read *)

\* C23: in every state of MemoryTM2020 the stored rows have pairwise distinct
\* indexes, and the image file named by the index of a stored row holds the
\* image of the sample of that row.
C23_NoFilenameAliasing ==
    (cfg.variant = "TM2020" /\ Len(data) >= 8) =>
        /\ \A i, j \in 1..Len(data[1]) : i # j => data[1][i] # data[1][j]
        /\ \A i \in 1..Len(data[1]) :
              /\ data[1][i] \in DOMAIN files
              /\ SampleOf(files[data[1][i]]) = SampleOf(data[2][i])

\* the Python positions get_transition(it) reads in the field lists of the
\* three transition memories; MemoryCognifly reads no image window
RowsReadBy(c, it) ==
    ((it + start_acts_offset(c))..(it + start_acts_offset(c) + c.act_buf_len))
        \cup {it + min_samples(c) - 1, it + min_samples(c)}
        \cup (IF c.variant = "Cognifly" THEN {}
              ELSE (it + start_imgs_offset(c))..(it + start_imgs_offset(c) + c.imgs_obs))

\* C24: in every state of MemoryTMNFLidar, MemoryTM2020 and MemoryCognifly
\* and for every valid item, every row get_transition reads lies in
\* [0, row_count) of every field list, the call returns, and the windows are
\* whole: imgs_obs + 1 images and act_buf_len + 1 actions, that is imgs_obs
\* and act_buf_len in each of the two observations.
C24_TransitionInBounds ==
    (cfg.variant # "Traj" /\ ValidItem) =>
        /\ RowsReadBy(cfg, item) \subseteq 0..(row_count(data) - 1)
        /\ \A j \in FieldLists : Len(data[j]) = row_count(data)
        /\ out.status = "ok"
        /\ Len(out.last_obs.acts) = cfg.act_buf_len
        /\ Len(out.new_obs.acts) = cfg.act_buf_len
        /\ cfg.variant # "Cognifly" =>
              /\ Len(out.last_obs.imgs) = cfg.imgs_obs
              /\ Len(out.new_obs.imgs) = cfg.imgs_obs

\* the last valid item of a MemoryTM2020 that has been trimmed
C24_Witness ==
    /\ cfg.variant = "TM2020"
    /\ trimmed > 0
    /\ ValidItem
    /\ item = __len__(cfg, data) - 1
    /\ cfg.imgs_obs > cfg.act_buf_len
    /\ out.status = "ok"

\* the Python positions get_trajectory(it) reads in the field lists: the rows
\* idx_now + k, the imgs_obs + traj_len image rows and the
\* act_buf_len + traj_len action rows
RowsReadTraj(c, it) ==
    {it + min_samples(c) + k : k \in 0..(c.traj_len - 1)}
        \cup ((it + start_imgs_offset(c))
                ..(it + start_imgs_offset(c) + c.imgs_obs + c.traj_len - 1))
        \cup ((it + start_acts_offset(c))
                ..(it + start_acts_offset(c) + c.act_buf_len + c.traj_len - 1))

\* C25: in every state of TrajMemoryTMNFLidar, for every traj_len and every
\* valid item, every row get_trajectory reads lies in [0, row_count).
C25_TrajectoryInBounds ==
    (cfg.variant = "Traj" /\ ValidItem) =>
        RowsReadTraj(cfg, item) \subseteq 0..(row_count(data) - 1)

---------------------------------------------------------------------------
(* Claims on the length of the memory after append_buffer *)

\* C26: the stored rows depend on the samples appended, not on their split
\* into buffers: they are the rows one append_buffer call with all the
\* samples leaves in an empty memory; and once min_samples + 2 samples have
\* been appended len(memory) > 0.
C26_NotStuckEmpty ==
    /\ nb_appends > 0 =>
          data = append_buffer(cfg, <<>>, BufferMemory(cfg.variant, 0, appended))
    /\ appended >= min_samples(cfg) + 2 => __len__(cfg, data) > 0

\* C27: after every append_buffer call of every variant len(memory) is at
\* most memory_size, and it is memory_size exactly after a call that trimmed.
C27_LenAtMostMemorySize ==
    nb_appends > 0 =>
        /\ __len__(cfg, data) <= cfg.memory_size
        /\ trimmed > 0 => __len__(cfg, data) = cfg.memory_size

\* the second append_buffer call of a MemoryCognifly trimmed
C27_Witness ==
    /\ cfg.variant = "Cognifly"
    /\ nb_appends = 2
    /\ trimmed > 0
    /\ peak > row_count(data)
    /\ __len__(cfg, data) = cfg.memory_size

---------------------------------------------------------------------------
(* Further claims on iterate_epochs_tm *)

\* C28: started with a run instance at epoch e0 <= epochs (0 for a new one,
\* the checkpointed epoch for a loaded one), the generator calls run_epoch
\* epochs - e0 times and then ends: it leaves its try block without an
\* exception and with a run instance whose epoch is epochs.
C28_EpochLoopTermination ==
    (/\ gpc = "finally"
     /\ existed = "yes" => disk[checkpoint_path].epoch <= tcfg.epochs) =>
        /\ exc = "none"
        /\ run_instance # Unbound
        /\ run_instance.epoch = tcfg.epochs

====
